---- MODULE Spec2Model ----
(***************************************************************************)
(* Model of the microgrid component metadata layer of frequenz-sdk-python: *)
(*   microgrid/grid_connection.py   the module-level grid connection       *)
(*   microgrid/fuse.py              the Fuse value class                   *)
(*   microgrid/component/_component.py                                     *)
(*                                  Component, GridMetadata and the        *)
(*                                  protobuf conversions                   *)
(*                                                                         *)
(* Python values are modelled as records tagged with their class in the    *)
(* field "kind"; objects whose equality the code overrides also carry      *)
(* their identity "oid", which the overridden equality must ignore.        *)
(* Enum members are modelled by their names.                               *)
(***************************************************************************)
EXTENDS Integers, Sequences, FiniteSets

VARIABLES
    _GRID_CONNECTION,  \* grid_connection._GRID_CONNECTION (module global)
    components,        \* argument of the most recent initialize() call
    raised,            \* exception the most recent initialize() call ended with
    prev_connection,   \* what get() returned just before the most recent call
    last_success,      \* fuse handed over by the most recent initialize() call
                       \* that returned normally with exactly one GRID component
    call               \* most recent call of a pure function, with its result

vars == <<_GRID_CONNECTION, components, raised, prev_connection, last_success, call>>

----------------------------------------------------------------------------
(* Bounds of the model *)

\* longest component list handed to initialize()
MaxComponents == 2
\* currents (in Amperes) range over 1..MaxCurrent
MaxCurrent == 2
\* component ids handed to is_valid() range over -MaxId..MaxId
MaxId == 2
\* wire codes 0..MaxWireCode (and the inferred-only code) reach the conversions
MaxWireCode == 11
\* inverter metadata types 0..MaxWireType reach the type conversion
MaxWireType == 4
----------------------------------------------------------------------------
(* Python's None *)
NoneV == [kind |-> "None"]

(* frequenz.api.common.components_pb2.ComponentCategory wire codes, as      *)
(* referenced by the ComponentCategory enum and the conversions. The        *)
(* numerals are those of the protobuf definition; the conversions depend    *)
(* only on their being pairwise distinct.                                   *)
COMPONENT_CATEGORY_UNSPECIFIED == 0
COMPONENT_CATEGORY_GRID == 1
COMPONENT_CATEGORY_METER == 2
COMPONENT_CATEGORY_INVERTER == 3
COMPONENT_CATEGORY_BATTERY == 5
COMPONENT_CATEGORY_EV_CHARGER == 6
COMPONENT_CATEGORY_SENSOR == 7
COMPONENT_CATEGORY_CHP == 10
PV_ARRAY_VALUE == 1000001

(* frequenz.api.microgrid.inverter_pb2.Type wire codes *)
TYPE_UNSPECIFIED == 0
TYPE_BATTERY == 1
TYPE_SOLAR == 2
TYPE_HYBRID == 3

(* class InverterType(ComponentType): member name -> value *)
InverterTypeValue ==
    [NONE |-> TYPE_UNSPECIFIED, BATTERY |-> TYPE_BATTERY,
     SOLAR |-> TYPE_SOLAR, HYBRID |-> TYPE_HYBRID]

InverterType == DOMAIN InverterTypeValue

(* class ComponentCategory(Enum): member name -> value *)
ComponentCategoryValue ==
    [NONE |-> COMPONENT_CATEGORY_UNSPECIFIED,
     GRID |-> COMPONENT_CATEGORY_GRID,
     METER |-> COMPONENT_CATEGORY_METER,
     INVERTER |-> COMPONENT_CATEGORY_INVERTER,
     BATTERY |-> COMPONENT_CATEGORY_BATTERY,
     EV_CHARGER |-> COMPONENT_CATEGORY_EV_CHARGER,
     CHP |-> COMPONENT_CATEGORY_CHP,
     PV_ARRAY |-> PV_ARRAY_VALUE]

ComponentCategory == DOMAIN ComponentCategoryValue

----------------------------------------------------------------------------
(* timeseries.Current: a quantity compared by its value in Amperes *)
Current(a) == [kind |-> "Current", amperes |-> a]

as_amperes(c) == c.amperes

CurrentEq(a, b) == a.kind = "Current" /\ b.kind = "Current" /\ a.amperes = b.amperes

Currents == 1..MaxCurrent

(* fuse.Fuse: frozen dataclass of three Current fields *)
Fuse(oid, c1, c2, c3) ==
    [kind |-> "Fuse", oid |-> oid,
     rated_current_phase_1 |-> c1,
     rated_current_phase_2 |-> c2,
     rated_current_phase_3 |-> c3]

(* grid_connection.GridConnection: frozen dataclass of one Fuse field *)
GridConnection(fuse) == [kind |-> "GridConnection", fuse |-> fuse]

(* _component.GridMetadata: holds max_current only *)
GridMetadata(oid, max_current) ==
    [kind |-> "GridMetadata", oid |-> oid, _max_current_a |-> max_current]

max_current(m) == m._max_current_a

(* A ComponentMetadata object that does carry the `fuse` attribute that     *)
(* initialize() reads (its value a Fuse or None).                           *)
MetadataWithFuse(fuse) == [kind |-> "MetadataWithFuse", fuse |-> fuse]

(* _component.Component: frozen dataclass *)
Component(component_id, category, type, metadata) ==
    [component_id |-> component_id, category |-> category,
     type |-> type, metadata |-> metadata]

(* getattr: whether reading attribute `fuse` of a metadata object succeeds *)
HasFuseAttr(m) == "fuse" \in DOMAIN m

----------------------------------------------------------------------------
(* Equality and hashing *)

(* builtin hash() of a float holding a small non-negative integer value *)
hash_float(x) == x

(* builtin hash() of a 3-tuple: a mixing function of the lanes' hashes,     *)
(* computed here in reduced width                                           *)
hash_tuple3(a, b, c) ==
    ((((17 * 31 + hash_float(a)) * 31 + hash_float(b)) * 31) + hash_float(c)) % 65536

FuseEqPhase1Only(a, b) ==
    /\ a.kind = "Fuse" /\ b.kind = "Fuse"
    /\ CurrentEq(a.rated_current_phase_1, b.rated_current_phase_1)

(* Fuse.__eq__ as generated by @dataclass(frozen=True): same class and      *)
(* equal field tuples                                                       *)
FuseEq(a, b) ==
    /\ a.kind = "Fuse" /\ b.kind = "Fuse"
    /\ CurrentEq(a.rated_current_phase_1, b.rated_current_phase_1)
    /\ CurrentEq(a.rated_current_phase_2, b.rated_current_phase_2)
    /\ CurrentEq(a.rated_current_phase_3, b.rated_current_phase_3)

(* Fuse.__hash__ *)
FuseHash(f) ==
    LET current_phase_1 == as_amperes(f.rated_current_phase_1)
        current_phase_2 == as_amperes(f.rated_current_phase_2)
        current_phase_3 == as_amperes(f.rated_current_phase_3)
    IN  hash_tuple3(current_phase_1, current_phase_2, current_phase_3)

(* GridMetadata.__eq__ *)
GridMetadataEq(self, rhs) ==
    IF rhs.kind = "GridMetadata"
    THEN max_current(self) = max_current(rhs)
    ELSE FALSE

(* GridMetadata.__hash__ *)
GridMetadataHash(self) == hash_float(max_current(self))

(* GridConnection.__eq__ as generated by @dataclass(frozen=True) *)
GridConnectionEq(a, b) ==
    /\ a.kind = "GridConnection" /\ b.kind = "GridConnection"
    /\ FuseEq(a.fuse, b.fuse)

----------------------------------------------------------------------------
(* grid_connection.py *)

(* the list comprehension of initialize(): the GRID components, in order *)
grid_connections(comps) == SelectSeq(comps, LAMBDA c : c.category = "GRID")

Returned(conn) == [raised |-> "none", conn |-> conn]

Raised(exc, conn) == [raised |-> exc, conn |-> conn]

initialize_first_of_many(conn, comps) ==
    LET gc == grid_connections(comps)
    IN  IF Len(gc) = 0 THEN Returned(conn)
        ELSE IF gc[1].metadata = NoneV THEN Raised("RuntimeError", conn)
        ELSE IF ~HasFuseAttr(gc[1].metadata) THEN Raised("AttributeError", conn)
        ELSE IF gc[1].metadata.fuse = NoneV THEN Raised("RuntimeError", conn)
        ELSE Returned(GridConnection(gc[1].metadata.fuse))

initialize_store_unchecked(conn, comps) ==
    LET gc == grid_connections(comps)
    IN  IF Len(gc) = 0 THEN Returned(conn)
        ELSE IF Len(gc) > 1 THEN Raised("RuntimeError", conn)
        ELSE IF gc[1].metadata = NoneV THEN Raised("RuntimeError", conn)
        ELSE IF ~HasFuseAttr(gc[1].metadata) THEN Raised("AttributeError", conn)
        ELSE IF gc[1].metadata.fuse = NoneV
             THEN Raised("RuntimeError", GridConnection(NoneV))
        ELSE Returned(GridConnection(gc[1].metadata.fuse))

initialize_island_resets(conn, comps) ==
    LET gc == grid_connections(comps)
    IN  IF Len(gc) = 0 THEN Returned(NoneV)
        ELSE IF Len(gc) > 1 THEN Raised("RuntimeError", conn)
        ELSE IF gc[1].metadata = NoneV THEN Raised("RuntimeError", conn)
        ELSE IF ~HasFuseAttr(gc[1].metadata) THEN Raised("AttributeError", conn)
        ELSE IF gc[1].metadata.fuse = NoneV THEN Raised("RuntimeError", conn)
        ELSE Returned(GridConnection(gc[1].metadata.fuse))

(* initialize(components), as a function of the stored connection `conn`:   *)
(* the exception it ends with ("none": it returns) and the connection       *)
(* stored afterwards                                                        *)
initialize(conn, comps) ==
    LET gc == grid_connections(comps)
        grid_connections_count == Len(gc)
    IN  IF grid_connections_count = 0 THEN Returned(conn)
        ELSE IF grid_connections_count > 1 THEN Raised("RuntimeError", conn)
        ELSE IF gc[1].metadata = NoneV THEN Raised("RuntimeError", conn)
        ELSE IF ~HasFuseAttr(gc[1].metadata) THEN Raised("AttributeError", conn)
        ELSE IF gc[1].metadata.fuse = NoneV THEN Raised("RuntimeError", conn)
        ELSE Returned(GridConnection(gc[1].metadata.fuse))

(* get() *)
get == _GRID_CONNECTION

----------------------------------------------------------------------------
(* Inputs of initialize() *)

(* fuses as a grid metadata carries them: one rating for all three phases *)
GridFuses == {Fuse(1, Current(x), Current(x), Current(x)) : x \in Currents}

GridMetadatas ==
    {NoneV}
    \cup {GridMetadata(1, x) : x \in Currents}
    \cup {MetadataWithFuse(f) : f \in GridFuses \cup {NoneV}}

(* what a position of the list holds: a meter, or a grid connection point *)
Slots ==
    {[category |-> "METER", metadata |-> NoneV]}
    \cup {[category |-> "GRID", metadata |-> m] : m \in GridMetadatas}

(* component lists with unique ids 1..n, up to MaxComponents long *)
ComponentLists ==
    UNION { { [i \in 1..n |-> Component(i, f[i].category, NoneV, f[i].metadata)]
              : f \in [1..n -> Slots] }
            : n \in 0..MaxComponents }

NoCall == [fn |-> "none"]

Init ==
    /\ _GRID_CONNECTION = NoneV
    /\ components = <<>>
    /\ raised = "none"
    /\ prev_connection = NoneV
    /\ last_success = NoneV
    /\ call = NoCall

(* one call of initialize(components) *)
Initialize ==
    \E comps \in ComponentLists :
        LET r  == initialize(_GRID_CONNECTION, comps)
            gc == grid_connections(comps)
        IN  /\ _GRID_CONNECTION' = r.conn
            /\ components' = comps
            /\ raised' = r.raised
            /\ prev_connection' = _GRID_CONNECTION
            /\ last_success' =
                  IF r.raised = "none" /\ Len(gc) = 1
                  THEN gc[1].metadata.fuse
                  ELSE last_success
            /\ UNCHANGED call

Next == Initialize

Spec == Init /\ [][Next]_vars

----------------------------------------------------------------------------
(* _component.py *)

(* a member of InverterType, as a value *)
InverterTypeMember(name) == [kind |-> "InverterType", name |-> name]

_component_type_from_protobuf_any_category(component_category, metadata_type) ==
    IF ~(\E t \in InverterType : InverterTypeValue[t] = metadata_type)
    THEN NoneV
    ELSE InverterTypeMember(
             CHOOSE t \in InverterType : InverterTypeValue[t] = metadata_type)

(* _component_type_from_protobuf(component_category, component_metadata),    *)
(* given the category's wire code and component_metadata.type               *)
_component_type_from_protobuf(component_category, metadata_type) ==
    IF component_category = COMPONENT_CATEGORY_INVERTER
    THEN IF ~(\E t \in InverterType : InverterTypeValue[t] = metadata_type)
         THEN NoneV
         ELSE InverterTypeMember(
                  CHOOSE t \in InverterType : InverterTypeValue[t] = metadata_type)
    ELSE NoneV

_component_category_from_protobuf_sensor_unchecked(component_category) ==
    IF ~(\E t \in ComponentCategory : ComponentCategoryValue[t] = component_category)
    THEN [raised |-> "none", value |-> "NONE"]
    ELSE [raised |-> "none",
          value |-> CHOOSE t \in ComponentCategory :
                        ComponentCategoryValue[t] = component_category]

(* _component_category_from_protobuf(component_category): the exception it   *)
(* ends with, or the member it returns                                      *)
_component_category_from_protobuf(component_category) ==
    IF component_category = COMPONENT_CATEGORY_SENSOR
    THEN [raised |-> "ValueError"]
    ELSE IF ~(\E t \in ComponentCategory :
                  ComponentCategoryValue[t] = component_category)
    THEN [raised |-> "none", value |-> "NONE"]
    ELSE [raised |-> "none",
          value |-> CHOOSE t \in ComponentCategory :
                        ComponentCategoryValue[t] = component_category]

is_valid_zero_any_category(self) ==
    \/ (self.component_id > 0 /\ \E t \in ComponentCategory : t = self.category)
    \/ self.component_id = 0

is_valid_non_negative(self) ==
    \/ (self.component_id >= 0 /\ \E t \in ComponentCategory : t = self.category)
    \/ (self.component_id = 0 /\ self.category = "GRID")

(* Component.is_valid() *)
is_valid(self) ==
    \/ (self.component_id > 0 /\ \E t \in ComponentCategory : t = self.category)
    \/ (self.component_id = 0 /\ self.category = "GRID")

----------------------------------------------------------------------------
(* Inputs of the pure functions *)

(* values a caller can put in Component.category that are no member of      *)
(* ComponentCategory: None, the raw wire code of GRID, a member of another  *)
(* enum                                                                     *)
NotCategories == {"py:None", "py:int:1", "InverterType.BATTERY"}

AnyComponents ==
    { Component(id, cat, type, md) :
        id \in (0 - MaxId)..MaxId,
        cat \in ComponentCategory \cup NotCategories,
        type \in {NoneV, InverterTypeMember("BATTERY")},
        md \in {NoneV, GridMetadata(1, MaxCurrent)} }

WireCodes == 0..MaxWireCode \cup {PV_ARRAY_VALUE}

WireTypes == 0..MaxWireType

(* identities of the two references compared: object 1 with itself or with *)
(* another object                                                           *)
Oids == {1, 2}

FuseObjects ==
    { Fuse(oid, Current(a), Current(b), Current(c)) :
        oid \in Oids, a \in Currents, b \in Currents, c \in Currents }

GridMetadataObjects == { GridMetadata(oid, x) : oid \in Oids, x \in Currents }

(* what a GridMetadata may be compared with *)
Comparands == GridMetadataObjects \cup {NoneV, MetadataWithFuse(NoneV)}

(* two references: the same identity is the same object *)
SameObjectSameValue(a, b) ==
    ("oid" \in DOMAIN a /\ "oid" \in DOMAIN b /\ a.oid = b.oid) => a = b

(* component.is_valid() *)
IsValid ==
    \E c \in AnyComponents :
        /\ call' = [fn |-> "is_valid", self |-> c, ret |-> is_valid(c)]
        /\ UNCHANGED <<_GRID_CONNECTION, components, raised, prev_connection, last_success>>

(* _component_category_from_protobuf(code) *)
CategoryFromProtobuf ==
    \E code \in WireCodes :
        /\ call' = [fn |-> "_component_category_from_protobuf",
                    component_category |-> code,
                    ret |-> _component_category_from_protobuf(code)]
        /\ UNCHANGED <<_GRID_CONNECTION, components, raised, prev_connection, last_success>>

(* _component_type_from_protobuf(code, metadata) *)
TypeFromProtobuf ==
    \E code \in WireCodes, mtype \in WireTypes :
        /\ call' = [fn |-> "_component_type_from_protobuf",
                    component_category |-> code,
                    metadata_type |-> mtype,
                    ret |-> _component_type_from_protobuf(code, mtype)]
        /\ UNCHANGED <<_GRID_CONNECTION, components, raised, prev_connection, last_success>>

(* a == b, hash(a), hash(b) for two Fuse references *)
FuseCompare ==
    \E a \in FuseObjects, b \in FuseObjects :
        /\ a.oid = 1
        /\ SameObjectSameValue(a, b)
        /\ call' = [fn |-> "Fuse.__eq__", a |-> a, b |-> b,
                    eq |-> FuseEq(a, b),
                    hash_a |-> FuseHash(a), hash_b |-> FuseHash(b)]
        /\ UNCHANGED <<_GRID_CONNECTION, components, raised, prev_connection, last_success>>

(* a == b for a GridMetadata a, with hash(a), and hash(b) when b is one too *)
GridMetadataCompare ==
    \E a \in GridMetadataObjects, b \in Comparands :
        /\ a.oid = 1
        /\ SameObjectSameValue(a, b)
        /\ call' = [fn |-> "GridMetadata.__eq__", a |-> a, b |-> b,
                    eq |-> GridMetadataEq(a, b),
                    hash_a |-> GridMetadataHash(a),
                    hash_b |-> IF b.kind = "GridMetadata"
                               THEN GridMetadataHash(b) ELSE 0]
        /\ UNCHANGED <<_GRID_CONNECTION, components, raised, prev_connection, last_success>>

NextPure ==
    \/ IsValid
    \/ CategoryFromProtobuf
    \/ TypeFromProtobuf
    \/ FuseCompare
    \/ GridMetadataCompare

SpecPure == Init /\ [][NextPure]_vars

----------------------------------------------------------------------------
(* Properties of grid_connection.py, checked under Spec *)

NumGrid == Len(grid_connections(components))

(* the one GRID component of the most recent call, when NumGrid = 1 *)
TheGrid == grid_connections(components)[1]

(* C1: whenever the most recent initialize() call was given a component     *)
(* list without any GRID component, get() returns None.                     *)
C1_IslandGetsNone == NumGrid = 0 => get = NoneV

(* C2: an initialize() call given two or more GRID components raises        *)
(* RuntimeError and get() returns what it returned before the call.         *)
C2_MultipleGridsRejected ==
    NumGrid >= 2 => (raised = "RuntimeError" /\ get = prev_connection)

(* C2 witness: a list with two GRID components was rejected while a         *)
(* connection was already stored, and the stored connection survived.       *)
C2_Witness ==
    /\ NumGrid >= 2
    /\ raised = "RuntimeError"
    /\ prev_connection # NoneV
    /\ get = prev_connection

(* C3: an initialize() call given exactly one GRID component built as       *)
(* Component(id, GRID, None, GridMetadata(x)) returns normally and get()    *)
(* then equals GridConnection(Fuse(x, x, x)).                               *)
C3_GridMetadataGivesUniformFuse ==
    (NumGrid = 1 /\ TheGrid.type = NoneV /\ TheGrid.metadata.kind = "GridMetadata")
    => LET x == Current(max_current(TheGrid.metadata))
       IN  /\ raised = "none"
           /\ GridConnectionEq(get, GridConnection(Fuse(1, x, x, x)))

(* C6: every initialize() call that raises leaves get() as it was; a call   *)
(* given exactly one GRID component whose metadata is None, or whose        *)
(* metadata has a fuse that is None, raises RuntimeError; and get() changes *)
(* only in a call given exactly one GRID component with metadata and fuse   *)
(* both not None.                                                           *)
C6_FailingCallsAtomic ==
    /\ raised # "none" => get = prev_connection
    /\ (NumGrid = 1 /\ TheGrid.metadata = NoneV)
           => (raised = "RuntimeError" /\ get = prev_connection)
    /\ (NumGrid = 1 /\ HasFuseAttr(TheGrid.metadata) /\ TheGrid.metadata.fuse = NoneV)
           => (raised = "RuntimeError" /\ get = prev_connection)
    /\ get # prev_connection
           => /\ NumGrid = 1
              /\ TheGrid.metadata # NoneV
              /\ HasFuseAttr(TheGrid.metadata)
              /\ TheGrid.metadata.fuse # NoneV

(* C6 witness: with a connection stored, a call whose only GRID component   *)
(* has a metadata with fuse None raised and the connection survived.        *)
C6_Witness ==
    /\ NumGrid = 1
    /\ HasFuseAttr(TheGrid.metadata)
    /\ TheGrid.metadata.fuse = NoneV
    /\ raised = "RuntimeError"
    /\ prev_connection # NoneV
    /\ get = prev_connection

----------------------------------------------------------------------------
(* Properties of the pure functions, checked under SpecPure *)

(* C4: every component for which is_valid() is True has id 0 exactly when   *)
(* its category is GRID.                                                    *)
C4_ZeroIdIffGrid ==
    (call.fn = "is_valid" /\ call.ret)
    => (call.self.component_id = 0 <=> call.self.category = "GRID")

(* C4, amended: every component for which is_valid() is True and whose id   *)
(* is 0 has category GRID (a GRID component with a positive id is valid     *)
(* too).                                                                    *)
C4_ZeroIdImpliesGrid ==
    (call.fn = "is_valid" /\ call.ret)
    => (call.self.component_id = 0 => call.self.category = "GRID")

(* C4 witness: is_valid() returned True for a component with id 0. *)
C4_Witness ==
    /\ call.fn = "is_valid"
    /\ call.ret
    /\ call.self.component_id = 0
    /\ call.self.category = "GRID"

(* C5: two Fuse instances are equal exactly when their three rated currents *)
(* are pairwise equal, and equal instances have equal hashes; likewise two  *)
(* GridMetadata instances are equal exactly when their max_current are      *)
(* equal, and equal instances have equal hashes.                            *)
C5_EqualityAndHashByValue ==
    /\ call.fn = "Fuse.__eq__"
       => /\ call.eq <=>
                 /\ as_amperes(call.a.rated_current_phase_1)
                      = as_amperes(call.b.rated_current_phase_1)
                 /\ as_amperes(call.a.rated_current_phase_2)
                      = as_amperes(call.b.rated_current_phase_2)
                 /\ as_amperes(call.a.rated_current_phase_3)
                      = as_amperes(call.b.rated_current_phase_3)
          /\ call.eq => call.hash_a = call.hash_b
    /\ (call.fn = "GridMetadata.__eq__" /\ call.b.kind = "GridMetadata")
       => /\ call.eq <=> (call.a._max_current_a = call.b._max_current_a)
          /\ call.eq => call.hash_a = call.hash_b

(* C5 witness: two distinct Fuse objects with the same three currents       *)
(* compared equal and hashed alike.                                         *)
C5_Witness ==
    /\ call.fn = "Fuse.__eq__"
    /\ call.a.oid # call.b.oid
    /\ call.eq
    /\ call.hash_a = call.hash_b

(* C8: is_valid() returns True exactly when (id > 0 and the category is a   *)
(* member of ComponentCategory) or (id = 0 and the category is GRID); a     *)
(* negative id, or id 0 with another category, is invalid.                  *)
C8_IsValidExact ==
    call.fn = "is_valid"
    => LET id  == call.self.component_id
           cat == call.self.category
       IN  /\ call.ret <=> ((id > 0 /\ cat \in ComponentCategory)
                            \/ (id = 0 /\ cat = "GRID"))
           /\ id < 0 => ~call.ret
           /\ (id = 0 /\ cat # "GRID") => ~call.ret

(* C8 witness: is_valid() returned False for id 0 with a category that is   *)
(* a member of ComponentCategory other than GRID.                           *)
C8_Witness ==
    /\ call.fn = "is_valid"
    /\ call.self.component_id = 0
    /\ call.self.category \in ComponentCategory \ {"GRID"}
    /\ ~call.ret

(* C9: _component_category_from_protobuf raises ValueError for the SENSOR   *)
(* code and for no other code; for another code that is the value of a      *)
(* member it returns that member; for every remaining code it returns       *)
(* NONE; it returns PV_ARRAY only for the code 1000001.                     *)
C9_CategoryConversionTotal ==
    call.fn = "_component_category_from_protobuf"
    => LET code == call.component_category
           r    == call.ret
           known == \E m \in ComponentCategory : ComponentCategoryValue[m] = code
       IN  /\ code = COMPONENT_CATEGORY_SENSOR <=> r.raised = "ValueError"
           /\ code # COMPONENT_CATEGORY_SENSOR => r.raised = "none"
           /\ (code # COMPONENT_CATEGORY_SENSOR /\ known)
                  => (r.value \in ComponentCategory
                      /\ ComponentCategoryValue[r.value] = code)
           /\ (code # COMPONENT_CATEGORY_SENSOR /\ ~known) => r.value = "NONE"
           /\ (r.raised = "none" /\ r.value = "PV_ARRAY") => code = 1000001

(* C9 witness: the SENSOR code raised ValueError. *)
C9_Witness ==
    /\ call.fn = "_component_category_from_protobuf"
    /\ call.component_category = COMPONENT_CATEGORY_SENSOR
    /\ call.ret.raised = "ValueError"

(* C10: _component_type_from_protobuf returns None for every category       *)
(* other than INVERTER whatever the metadata; for INVERTER it returns the   *)
(* InverterType whose value equals metadata.type, and None when there is    *)
(* none.                                                                    *)
C10_TypeOnlyForInverter ==
    call.fn = "_component_type_from_protobuf"
    => LET code  == call.component_category
           mtype == call.metadata_type
           r     == call.ret
       IN  /\ code # COMPONENT_CATEGORY_INVERTER => r = NoneV
           /\ (code = COMPONENT_CATEGORY_INVERTER
               /\ mtype \in {TYPE_UNSPECIFIED, TYPE_BATTERY, TYPE_SOLAR, TYPE_HYBRID})
                  => (r.kind = "InverterType" /\ InverterTypeValue[r.name] = mtype)
           /\ (code = COMPONENT_CATEGORY_INVERTER
               /\ mtype \notin {TYPE_UNSPECIFIED, TYPE_BATTERY, TYPE_SOLAR, TYPE_HYBRID})
                  => r = NoneV
           /\ r # NoneV => code = COMPONENT_CATEGORY_INVERTER

(* C10 witness: a category other than INVERTER with a metadata type that is *)
(* the value of an InverterType gave None.                                  *)
C10_Witness ==
    /\ call.fn = "_component_type_from_protobuf"
    /\ call.component_category = COMPONENT_CATEGORY_BATTERY
    /\ call.metadata_type = TYPE_BATTERY
    /\ call.ret = NoneV

====
